---- MODULE Spec2Model ----
(***************************************************************************)
(* Model of generate_training_data.py: the daily-record generator          *)
(* (generate_realistic_data) and the tabular writer (save_to_csv).         *)
(*                                                                         *)
(* Real quantities are held as exact integers in fixed units:              *)
(*   hours            in 1/200 h      (sleep_hours, previous_sleep)        *)
(*   med_effect       in 1/200                                             *)
(*   exercise_minutes in 1/10 min                                          *)
(*   daylight_minutes in 1/100 min                                         *)
(*   substance_amount in whole units                                       *)
(*   mood             in 1/30000, anxiety and anhedonia in 1/6000          *)
(* Values rounded to one decimal (round(x, 1)) are held in tenths.         *)
(* The arithmetic is exact, so a result differs from the floating-point    *)
(* one only where a value to be rounded lies exactly on a tie.             *)
(* Dates are proleptic Gregorian ordinals, as datetime.toordinal().        *)
(***************************************************************************)
EXTENDS Integers, Sequences, FiniteSets, TLC

VARIABLES
    seed,            \* argument of random.seed
    today,           \* ordinal of datetime.now()
    numDays,         \* num_days
    rng,             \* state of the process-wide random generator
    day,             \* loop variable of generate_realistic_data
    previous_sleep,  \* carried scalar, 1/200 h
    previous_mood,   \* carried scalar
    data,            \* the list of records built so far
    locals,          \* local variables of the last loop iteration
    pc,              \* position of the run
    fileOpen,        \* the csv file handle is held
    fileRows,        \* rows in the output file
    headerWritten,   \* the header row is in the output file
    console,         \* lines printed by save_to_csv
    stats,           \* med_days, avg_mood_before, avg_mood_after
    twin             \* a second run of the generator, used by SpecPair only

vars == <<seed, today, numDays, rng, day, previous_sleep, previous_mood, data,
          locals, pc, fileOpen, fileRows, headerWritten, console, stats, twin>>

(***************************************************************************)
(* Bounds of the model and constants of the program.                       *)
(***************************************************************************)
MaxNumDays == 92
MaxSeedShift == 1
MaxTodayShift == 1

Seed == 42
DefaultNumDays == 180
medication_start_day == 60
BeforeDays == 60
AfterStart == 90
Resolution == 20

(***************************************************************************)
(* datetime: ordinals, weekday() and month.                                *)
(***************************************************************************)
IsLeap(y) == (y % 4 = 0) /\ ((y % 100 # 0) \/ (y % 400 = 0))

DaysBeforeYear(y) ==
    (y - 1) * 365 + (y - 1) \div 4 - (y - 1) \div 100 + (y - 1) \div 400

DaysInMonth(y, m) ==
    IF m = 2 THEN (IF IsLeap(y) THEN 29 ELSE 28)
    ELSE IF m \in {4, 6, 9, 11} THEN 30 ELSE 31

\* days of the year before the first day of month m
DaysBeforeMonth(y, m) ==
    <<0, 31, 59, 90, 120, 151, 181, 212, 243, 273, 304, 334>>[m]
    + (IF m > 2 /\ IsLeap(y) THEN 1 ELSE 0)

Ordinal(y, m, d) == DaysBeforeYear(y) + DaysBeforeMonth(y, m) + d

YearOf(o) == CHOOSE y \in 2020..2030 : DaysBeforeYear(y) < o /\ o <= DaysBeforeYear(y + 1)

MonthOf(o) ==
    LET y == YearOf(o)
        n == o - DaysBeforeYear(y)
    IN  CHOOSE m \in 1..12 :
            DaysBeforeMonth(y, m) < n /\ n <= DaysBeforeMonth(y, m) + DaysInMonth(y, m)

\* date.weekday(): Monday = 0 ... Sunday = 6
Weekday(o) == (o + 6) % 7

(***************************************************************************)
(* random: a seeded deterministic stream.  random() returns k/Resolution   *)
(* for the k computed by Rand from the generator state.                    *)
(***************************************************************************)
NextRng(s) == (25173 * s + 13849) % 65536

Rand(s) == (NextRng(s) * Resolution) \div 65536

\* random.random() < pct/100
Below(k, pct) == k * 100 < pct * Resolution

\* random.uniform(a, b) = a + (b - a) * random()
Uniform(a, b, k) == a + ((b - a) * k) \div Resolution

(***************************************************************************)
(* Arithmetic helpers.                                                     *)
(***************************************************************************)
Min(a, b) == IF a < b THEN a ELSE b
Max(a, b) == IF a > b THEN a ELSE b

\* round(n / d) for d > 0: nearest integer, ties to even
RoundHalfEven(n, d) ==
    LET q == n \div d
        r == n - q * d
    IN  IF 2 * r < d THEN q
        ELSE IF 2 * r > d THEN q + 1
        ELSE IF q % 2 = 0 THEN q ELSE q + 1

\* round(x, 1) of a value in 1/200: the result in tenths
RoundHours(h) == RoundHalfEven(h, 20)

(***************************************************************************)
(* The body of the loop of generate_realistic_data, by parts.              *)
(***************************************************************************)
LoopContinues_OffByOne(d, n) == d <= n
LoopContinues(d, n) == d < n

DayOfWeek(date) == Weekday(date) + 1

MedicationTaken_Always(on_medication, k) == IF Below(k, 85) THEN 1 ELSE 0
MedicationTaken(on_medication, k) == IF on_medication /\ Below(k, 85) THEN 1 ELSE 0

DaysOnMeds_Unconditional(d, medication_taken) == Max(0, d - medication_start_day)
DaysOnMeds(d, medication_taken) ==
    IF medication_taken = 1 THEN Max(0, d - medication_start_day) ELSE 0

\* min(1.5, (days_on_meds / 30) * 1.5), then * 0.3 on a missed dose; in 1/200
MedEffect(on_medication, medication_taken, days_on_meds) ==
    IF on_medication
    THEN LET e == Min(300, days_on_meds * 10)
         IN  IF medication_taken = 0 THEN (e * 3) \div 10 ELSE e
    ELSE 0

\* max(4.0, min(10.0, sleep_hours)) in 1/200 h
ClampSleep(h) == Max(800, Min(2000, h))

\* int(min(5, max(1, (sleep_hours / 8.0) * 5 + noise))); noise in 1/200
SleepQuality_NoUpper(sleep_hours, noise) ==
    Max(1600, sleep_hours * 5 + 8 * noise) \div 1600
SleepQuality(sleep_hours, noise) ==
    Min(8000, Max(1600, sleep_hours * 5 + 8 * noise)) \div 1600

\* max(15, min(300, daylight_minutes)) in 1/100 min
ClampDaylight(m) == Max(1500, Min(30000, m))

\* int(max(1, min(5, round(mood)))), mood in 1/30000
MoodLevel(mood) == Max(1, Min(5, RoundHalfEven(mood, 30000)))

\* int(max(0, min(4, round(x)))), x in 1/6000
Level04(x) == Max(0, Min(4, RoundHalfEven(x, 6000)))

Iteration(today_, num_days, d, rng0, prev_sleep, prev_mood) ==
    LET current_date == today_ - num_days + d
        day_of_week == DayOfWeek(current_date)
        on_medication == d >= medication_start_day
        medication_taken == MedicationTaken(on_medication, Rand(rng0))
        s1 == IF on_medication THEN NextRng(rng0) ELSE rng0
        days_on_meds == DaysOnMeds(d, medication_taken)
        med_effect == MedEffect(on_medication, medication_taken, days_on_meds)
        is_weekend == day_of_week \in {1, 7}
        base_sleep == IF is_weekend THEN Uniform(1500, 1800, Rand(s1))
                                    ELSE Uniform(1200, 1600, Rand(s1))
        s2 == NextRng(s1)
        sleep_hours == ClampSleep(base_sleep + med_effect \div 2
                                  + Uniform(-100, 100, Rand(s2)))
        s3 == NextRng(s2)
        sleep_quality == SleepQuality(sleep_hours, Uniform(-200, 200, Rand(s3)))
        s4 == NextRng(s3)
        exercise_probability ==
            (IF is_weekend THEN 30 ELSE 15)
            + (IF d > 0 /\ prev_mood >= 3 THEN 20 ELSE 0)
        exercises == Below(Rand(s4), exercise_probability)
        s5 == NextRng(s4)
        exercise_minutes == IF exercises THEN Uniform(200, 600, Rand(s5)) ELSE 0
        s6 == IF exercises THEN NextRng(s5) ELSE s5
        month == MonthOf(current_date)
        seasonal_factor == IF 5 <= month /\ month <= 8 THEN 150 ELSE 70
        base_daylight == Uniform(60, 180, Rand(s6)) * seasonal_factor
        s7 == NextRng(s6)
        daylight_minutes ==
            ClampDaylight(IF is_weekend THEN base_daylight
                                        ELSE (base_daylight * 6) \div 10)
        caffeine == Below(Rand(s7), 70)
        s8 == NextRng(s7)
        substance1 == IF caffeine THEN Uniform(100, 400, Rand(s8)) ELSE 0
        s9 == IF caffeine THEN NextRng(s8) ELSE s8
        alcohol == is_weekend /\ Below(Rand(s9), 40)
        s10 == IF is_weekend THEN NextRng(s9) ELSE s9
        substance_amount ==
            substance1 + (IF alcohol THEN Uniform(200, 600, Rand(s10)) ELSE 0)
        s11 == IF alcohol THEN NextRng(s10) ELSE s10
        mood == 60000
                + med_effect * 150
                + (prev_sleep - 1200) * 75
                + exercise_minutes * 40
                + daylight_minutes
                - substance_amount * 18
                + (IF day_of_week = 2 THEN -9000 ELSE 0)
                + (prev_mood - 3) * 6000
                + Uniform(-9000, 9000, Rand(s11))
        s12 == NextRng(s11)
        mood_level == MoodLevel(mood)
        anxiety == 18000
                   - med_effect * 24
                   + (1400 - sleep_hours) * 9
                   - exercise_minutes * 5
                   + substance_amount * 6
                   + Uniform(-2400, 2400, Rand(s12))
        s13 == NextRng(s12)
        anxiety_level == Level04(anxiety)
        anhedonia == 15000
                     - med_effect * 21
                     - exercise_minutes * 4
                     + (1400 - sleep_hours) * 6
                     + Uniform(-1800, 1800, Rand(s13))
        s14 == NextRng(s13)
        anhedonia_level == Level04(anhedonia)
        \* lines 163-164: the carried scalars are overwritten before the append
        new_previous_sleep == sleep_hours
        new_previous_mood == mood_level
    IN  [rng |-> s14,
         previous_sleep |-> new_previous_sleep,
         previous_mood |-> new_previous_mood,
         locals |-> [day |-> d,
                     date |-> current_date,
                     on_medication |-> on_medication,
                     medication_taken |-> medication_taken,
                     days_on_meds |-> days_on_meds,
                     med_effect |-> med_effect,
                     is_weekend |-> is_weekend,
                     monday_penalty |-> (day_of_week = 2),
                     sleep_hours |-> sleep_hours,
                     exercise_minutes |-> exercise_minutes,
                     daylight_minutes |-> daylight_minutes,
                     substance_amount |-> substance_amount],
         record |-> [moodLevel |-> mood_level,
                     anxietyLevel |-> anxiety_level,
                     anhedoniaLevel |-> anhedonia_level,
                     sleepHours |-> RoundHours(sleep_hours),
                     sleepQuality |-> sleep_quality,
                     daylightMinutes |-> RoundHalfEven(daylight_minutes, 10),
                     exerciseMinutes |-> exercise_minutes,
                     medicationTaken |-> medication_taken,
                     substanceAmount |-> substance_amount * 10,
                     dayOfWeek |-> day_of_week,
                     previousDaySleep |->
                         IF d > 0 THEN RoundHours(new_previous_sleep) ELSE 0,
                     previousDayMood |->
                         IF d > 0 THEN new_previous_mood ELSE 0]]

NoLocals == [day |-> -1]
NoStats == [computed |-> FALSE]
NoTwin == [active |-> FALSE]

Seeds == {Seed + i : i \in 0..MaxSeedShift}
TodayChoices == {Ordinal(2026, 11, 3) + i : i \in 0..MaxTodayShift}
NumDaysChoices == (1..MaxNumDays) \cup {DefaultNumDays}

Init ==
    /\ seed \in Seeds
    /\ today \in TodayChoices
    /\ numDays \in NumDaysChoices
    /\ rng = seed
    /\ day = 0
    /\ previous_sleep = 1300
    /\ previous_mood = 2
    /\ data = <<>>
    /\ locals = NoLocals
    /\ pc = "generate"
    /\ fileOpen = FALSE
    /\ fileRows = <<>>
    /\ headerWritten = FALSE
    /\ console = <<>>
    /\ stats = NoStats
    /\ twin = NoTwin

\* one iteration of the loop at line 38
GenerateDay ==
    /\ pc = "generate"
    /\ LoopContinues(day, numDays)
    /\ LET it == Iteration(today, numDays, day, rng, previous_sleep, previous_mood)
       IN  /\ rng' = it.rng
           /\ previous_sleep' = it.previous_sleep
           /\ previous_mood' = it.previous_mood
           /\ locals' = it.locals
           /\ data' = Append(data, it.record)
    /\ day' = day + 1
    /\ UNCHANGED <<seed, today, numDays, pc, fileOpen, fileRows, headerWritten,
                   console, stats, twin>>

\* line 182: return data; line 215 calls save_to_csv
ReturnData ==
    /\ pc = "generate"
    /\ ~LoopContinues(day, numDays)
    /\ pc' = "open"
    /\ UNCHANGED <<seed, today, numDays, rng, day, previous_sleep, previous_mood,
                   data, locals, fileOpen, fileRows, headerWritten, console,
                   stats, twin>>

(***************************************************************************)
(* save_to_csv.                                                            *)
(***************************************************************************)
\* an exception raised inside the with block leaves save_to_csv
IoFailure_Swallowed == "summary"
IoFailure == "io_error"

\* the rows after which a failing writerows stops
FailurePoints(n) == {0, n \div 2, n - 1} \cap (0..(n - 1))

RECURSIVE SumMood(_)
SumMood(rows) ==
    IF rows = <<>> THEN 0 ELSE Head(rows).moodLevel + SumMood(Tail(rows))

\* data[:n]
Take(rows, n) == SubSeq(rows, 1, Min(n, Len(rows)))
\* data[n:]
Drop(rows, n) == SubSeq(rows, n + 1, Len(rows))

MedDays(rows) == Cardinality({i \in 1..Len(rows) : rows[i].medicationTaken = 1})

\* f"{num / den:.2f}": the printed value in hundredths
Fmt2(num, den) ==
    IF den > 0 THEN RoundHalfEven(100 * num, den)
               ELSE RoundHalfEven(-100 * num, -den)

\* line 191: open(filename, 'w', newline='')
OpenFile ==
    /\ pc = "open"
    /\ \E ok \in BOOLEAN :
          IF ok
          THEN /\ fileOpen' = TRUE
               /\ fileRows' = <<>>
               /\ headerWritten' = FALSE
               /\ pc' = "header"
          ELSE /\ pc' = IoFailure
               /\ UNCHANGED <<fileOpen, fileRows, headerWritten>>
    /\ UNCHANGED <<seed, today, numDays, rng, day, previous_sleep, previous_mood,
                   data, locals, console, stats, twin>>

\* line 193: writer.writeheader()
WriteHeader ==
    /\ pc = "header"
    /\ \E ok \in BOOLEAN :
          IF ok
          THEN /\ headerWritten' = TRUE
               /\ pc' = "rows"
               /\ UNCHANGED fileOpen
          ELSE /\ fileOpen' = FALSE
               /\ pc' = IoFailure
               /\ UNCHANGED headerWritten
    /\ UNCHANGED <<seed, today, numDays, rng, day, previous_sleep, previous_mood,
                   data, locals, fileRows, console, stats, twin>>

\* line 194: writer.writerows(data)
WriteRows ==
    /\ pc = "rows"
    /\ \/ /\ fileRows' = data
          /\ pc' = "close"
          /\ UNCHANGED fileOpen
       \/ \E n \in FailurePoints(Len(data)) :
            /\ fileRows' = SubSeq(data, 1, n)
            /\ fileOpen' = FALSE
            /\ pc' = IoFailure
    /\ UNCHANGED <<seed, today, numDays, rng, day, previous_sleep, previous_mood,
                   data, locals, headerWritten, console, stats, twin>>

\* end of the with block: the file is closed
CloseFile ==
    /\ pc = "close"
    /\ fileOpen' = FALSE
    /\ \E ok \in BOOLEAN : pc' = IF ok THEN "summary" ELSE IoFailure
    /\ UNCHANGED <<seed, today, numDays, rng, day, previous_sleep, previous_mood,
                   data, locals, fileRows, headerWritten, console, stats, twin>>

\* lines 196-197
PrintSummary ==
    /\ pc = "summary"
    /\ console' = console \o <<[line |-> "generated", value |-> Len(data)],
                               [line |-> "saved", value |-> 0]>>
    /\ pc' = "stats"
    /\ UNCHANGED <<seed, today, numDays, rng, day, previous_sleep, previous_mood,
                   data, locals, fileOpen, fileRows, headerWritten, stats, twin>>

\* lines 200-202; the division at line 202 raises ZeroDivisionError on 0
ComputeStats ==
    /\ pc = "stats"
    /\ IF Len(data) - AfterStart = 0
       THEN /\ pc' = "zero_division"
            /\ UNCHANGED stats
       ELSE /\ stats' = [computed |-> TRUE,
                         med_days |-> MedDays(data),
                         before_num |-> SumMood(Take(data, BeforeDays)),
                         before_den |-> BeforeDays,
                         after_num |-> SumMood(Drop(data, AfterStart)),
                         after_den |-> Len(data) - AfterStart]
            /\ pc' = "print_stats"
    /\ UNCHANGED <<seed, today, numDays, rng, day, previous_sleep, previous_mood,
                   data, locals, fileOpen, fileRows, headerWritten, console, twin>>

\* lines 204-208
PrintStats ==
    /\ pc = "print_stats"
    /\ console' = console \o
          <<[line |-> "statistics", value |-> 0],
            [line |-> "med_days", value |-> stats.med_days],
            [line |-> "before", value |-> Fmt2(stats.before_num, stats.before_den)],
            [line |-> "after", value |-> Fmt2(stats.after_num, stats.after_den)],
            [line |-> "improvement",
             value |-> Fmt2(stats.after_num * stats.before_den
                              - stats.before_num * stats.after_den,
                            stats.after_den * stats.before_den)]>>
    /\ pc' = "done"
    /\ UNCHANGED <<seed, today, numDays, rng, day, previous_sleep, previous_mood,
                   data, locals, fileOpen, fileRows, headerWritten, stats, twin>>

Next ==
    \/ GenerateDay
    \/ ReturnData
    \/ OpenFile
    \/ WriteHeader
    \/ WriteRows
    \/ CloseFile
    \/ PrintSummary
    \/ ComputeStats
    \/ PrintStats

Spec == Init /\ [][Next]_vars

(***************************************************************************)
(* Two runs of the generator with the same seed and num_days, started on   *)
(* dates that may differ.                                                  *)
(***************************************************************************)
InitPair ==
    /\ seed \in Seeds
    /\ today \in TodayChoices
    /\ numDays \in NumDaysChoices
    /\ rng = seed
    /\ day = 0
    /\ previous_sleep = 1300
    /\ previous_mood = 2
    /\ data = <<>>
    /\ locals = NoLocals
    /\ pc = "generate"
    /\ fileOpen = FALSE
    /\ fileRows = <<>>
    /\ headerWritten = FALSE
    /\ console = <<>>
    /\ stats = NoStats
    /\ \E t \in TodayChoices :
          twin = [active |-> TRUE, today |-> t, rng |-> seed,
                  previous_sleep |-> 1300, previous_mood |-> 2, data |-> <<>>]

GeneratePair ==
    /\ pc = "generate"
    /\ LoopContinues(day, numDays)
    /\ LET it == Iteration(today, numDays, day, rng, previous_sleep, previous_mood)
           tw == Iteration(twin.today, numDays, day, twin.rng,
                           twin.previous_sleep, twin.previous_mood)
       IN  /\ rng' = it.rng
           /\ previous_sleep' = it.previous_sleep
           /\ previous_mood' = it.previous_mood
           /\ locals' = it.locals
           /\ data' = Append(data, it.record)
           /\ twin' = [twin EXCEPT !.rng = tw.rng,
                                    !.previous_sleep = tw.previous_sleep,
                                    !.previous_mood = tw.previous_mood,
                                    !.data = Append(twin.data, tw.record)]
    /\ day' = day + 1
    /\ UNCHANGED <<seed, today, numDays, pc, fileOpen, fileRows, headerWritten,
                   console, stats>>

ReturnPair ==
    /\ pc = "generate"
    /\ ~LoopContinues(day, numDays)
    /\ pc' = "returned"
    /\ UNCHANGED <<seed, today, numDays, rng, day, previous_sleep, previous_mood,
                   data, locals, fileOpen, fileRows, headerWritten, console,
                   stats, twin>>

NextPair == GeneratePair \/ ReturnPair

SpecPair == InitPair /\ [][NextPair]_vars
(***************************************************************************)
(* Properties.                                                             *)
(***************************************************************************)
Generated == pc # "generate"

\* C1: for every record index i > 0 (position i + 1 of data), the emitted
\* previousDaySleep equals the emitted sleepHours of the record before it and
\* the emitted previousDayMood equals the moodLevel of the record before it.
C1_LagFieldsArePreviousRecord ==
    \A i \in 2..Len(data) :
        /\ data[i].previousDaySleep = data[i - 1].sleepHours
        /\ data[i].previousDayMood = data[i - 1].moodLevel

\* C2: two runs of the generator with the same seed and the same num_days
\* return identical record sequences, whatever the dates they are started on.
C2_SameSeedSameRecords ==
    (twin.active /\ pc = "returned") => data = twin.data

InRange(r) ==
    /\ r.moodLevel \in 1..5
    /\ r.anxietyLevel \in 0..4
    /\ r.anhedoniaLevel \in 0..4
    /\ r.sleepHours \in 40..100
    /\ r.sleepQuality \in 1..5
    /\ r.daylightMinutes \in 150..3000
    /\ r.exerciseMinutes = 0 \/ r.exerciseMinutes \in 200..600
    /\ r.medicationTaken \in {0, 1}
    /\ r.substanceAmount >= 0
    /\ r.dayOfWeek \in 1..7

\* C3: in every record produced, each bounded field lies in its documented
\* range: moodLevel 1..5, anxietyLevel 0..4, anhedoniaLevel 0..4, sleepHours
\* 4.0..10.0, sleepQuality 1..5, daylightMinutes 15..300, exerciseMinutes 0 or
\* 20..60, medicationTaken 0 or 1, substanceAmount >= 0, dayOfWeek 1..7.
C3_FieldsInRange == \A i \in 1..Len(data) : InRange(data[i])

\* a full run past the medication start in which a dose was taken, exercise
\* happened, the sleep quality reached its upper clip and alcohol was added
C3_Witness ==
    /\ Generated
    /\ numDays > medication_start_day
    /\ \E i \in 1..Len(data) :
          /\ data[i].medicationTaken = 1
          /\ data[i].exerciseMinutes > 0
          /\ data[i].sleepQuality = 5
          /\ data[i].substanceAmount > 4000

NoDoseBeforeStart ==
    \A i \in 1..Len(data) :
        (i - 1 < medication_start_day) => data[i].medicationTaken = 0

\* C4 as stated: no record before day medication_start_day has
\* medicationTaken = 1, and the count of records with medicationTaken = 1 is
\* at most num_days - medication_start_day.
C4_DoseCountOriginal ==
    Generated =>
        /\ NoDoseBeforeStart
        /\ MedDays(data) <= numDays - medication_start_day

\* C4 amended: no record before day medication_start_day has
\* medicationTaken = 1, and the count of records with medicationTaken = 1 is
\* at most max(0, num_days - medication_start_day).
C4_DoseCountAmended ==
    /\ NoDoseBeforeStart
    /\ MedDays(data) <= Max(0, numDays - medication_start_day)

\* a finished run past the medication start with doses taken and one missed
C4_Witness ==
    /\ Generated
    /\ numDays > medication_start_day
    /\ MedDays(data) > 0
    /\ MedDays(data) < numDays - medication_start_day

\* weekday() of the date of the last iteration, renumbered Sunday = 1,
\* Monday = 2, ..., Saturday = 7
SundayFirst(date) == ((Weekday(date) + 1) % 7) + 1

\* C5: the emitted dayOfWeek is the calendar weekday of the simulated date
\* with Sunday = 1 ... Saturday = 7, is_weekend is true exactly on Saturdays
\* and Sundays, and the Monday penalty applies exactly on Mondays.
C5_DayOfWeekSundayFirst ==
    (locals.day >= 0 /\ Len(data) = locals.day + 1) =>
        /\ data[Len(data)].dayOfWeek = SundayFirst(locals.date)
        /\ locals.is_weekend <=> Weekday(locals.date) \in {5, 6}
        /\ locals.monday_penalty <=> Weekday(locals.date) = 0

\* C6: save_to_csv ends abnormally only when opening, writing or closing the
\* file fails.
C6_FailsOnlyOnFileSystem == pc # "zero_division"

RowsKept(old, new) ==
    /\ Len(new) \in {Len(old), Len(old) + 1}
    /\ SubSeq(new, 1, Len(old)) = old

\* what holds of the generator's result: while it runs, data holds one record
\* per day done and day <= num_days; once it has returned, data holds exactly
\* num_days records, record i being that of day i
GeneratorResult ==
    /\ ~Generated => (Len(data) = day /\ day <= numDays)
    /\ Generated =>
          /\ Len(data) = numDays
          /\ \A i \in 1..Len(data) :
                data[i].dayOfWeek = DayOfWeek(today - numDays + i - 1)

\* C7: generate_realistic_data terminates without error and returns exactly
\* num_days records, one per day in increasing day order: every step of the
\* generator either appends one record and advances day towards num_days or
\* returns, on return Len(data) = num_days, and a record, once appended, is
\* never changed.
C7_GeneratorCompletes ==
    [][/\ GeneratorResult
       /\ GeneratorResult'
       /\ RowsKept(data, data')
       /\ ~Generated => (Generated' \/ (day' = day + 1 /\ Len(data') = Len(data) + 1))
      ]_vars

\* the generator has returned a sequence of more than one record
C7_Witness == Generated /\ Len(data) = numDays /\ numDays > 1

\* C8: nothing is printed by save_to_csv unless the file was opened, the
\* header and every row written and the file closed; after a failed open,
\* write or close the handle is released and nothing has been printed.
C8_SummaryAfterWrite ==
    /\ console # <<>> => (~fileOpen /\ headerWritten /\ fileRows = data)
    /\ pc = "io_error" => (~fileOpen /\ console = <<>>)

\* writerows failed after some of the rows
C8_Witness ==
    /\ pc = "io_error"
    /\ headerWritten
    /\ Len(fileRows) > 0
    /\ Len(fileRows) < Len(data)

Printed(name) ==
    LET i == CHOOSE j \in 1..Len(console) : console[j].line = name
    IN  console[i].value

\* C9: the printed 'before' value is the mean of moodLevel over the first 60
\* records (their sum divided by the number of records summed), the printed
\* 'after' value is the mean over the records from index 90 on, and the
\* printed improvement is the second minus the first.
C9_PrintedMeans ==
    pc = "done" =>
        LET first == Take(data, BeforeDays)
            rest == Drop(data, AfterStart)
        IN  /\ Printed("before") = Fmt2(SumMood(first), Len(first))
            /\ Len(rest) > 0 =>
                  /\ Printed("after") = Fmt2(SumMood(rest), Len(rest))
                  /\ Printed("improvement") =
                        Fmt2(SumMood(rest) * Len(first) - SumMood(first) * Len(rest),
                             Len(rest) * Len(first))

====
